---- MODULE Spec2Model ----
(***************************************************************************)
(* Model of recite.py: WordMemorySystem, a vocabulary trainer that         *)
(* schedules reviews on the Ebbinghaus intervals.                          *)
(*                                                                         *)
(* Time is counted in whole hours.  A Python str is a sequence of          *)
(* one-character strings; definition texts and rating tokens, which the    *)
(* program only tests for emptiness or parses as a whole, are TLA+         *)
(* strings.  An Optional value is a sequence of length 0 (None) or 1.      *)
(***************************************************************************)
EXTENDS Integers, Sequences, FiniteSets, TLC

VARIABLES
    words,      \* self.words: key -> memory record
    word_order, \* insertion order of the keys of self.words (a Python dict is ordered)
    data_file,  \* contents of word_memory.pkl: None, or the pickled mapping
    clock,      \* what datetime.now() returns, in hours
    last,       \* the latest add or review that changed self.words: what it was given
    session     \* where the running command or menu loop stands

\* the state of a WordMemorySystem, its file and the clock
vars == <<words, word_order, data_file, clock, last>>

allvars == <<vars, session>>

-----------------------------------------------------------------------------
(* Bounds of the model *)

MaxClock == 1       \* the clock stops advancing here
MaxReviews == 5     \* reviews of one record
MaxAttempts == 2    \* rating tokens typed during one review
MaxFlowReviews == 4 \* reviews completed through the commands and the menu

-----------------------------------------------------------------------------
(* Constants of the program *)

HoursPerDay == 24
YearDays == 365
PartialHours == 12
ForgotHours == 1
MaxMeanings == 3
MaxExamples == 2

\* a table with other day counts
ebbinghaus_intervals_other == <<0, 1, 3, 7, 30>>

\* self.ebbinghaus_intervals; Python index i is TLA+ index i + 1
ebbinghaus_intervals == <<0, 1, 2, 6, 31>>

None == <<>>
Some(x) == <<x>>

days(n) == n * HoursPerDay

-----------------------------------------------------------------------------
(* str.lower() and str.strip() *)

LowerChar(c) ==
    CASE c = "A" -> "a"
      [] c = "B" -> "b"
      [] c = "Y" -> "y"
      [] OTHER -> c

lower(s) == [i \in 1..Len(s) |-> LowerChar(s[i])]

IsSpace(c) == c = " "

RECURSIVE lstrip(_)
lstrip(s) == IF s # <<>> /\ IsSpace(Head(s)) THEN lstrip(Tail(s)) ELSE s

RECURSIVE rstrip(_)
rstrip(s) ==
    IF s # <<>> /\ IsSpace(s[Len(s)]) THEN rstrip(SubSeq(s, 1, Len(s) - 1)) ELSE s

strip(s) == rstrip(lstrip(s))

\* word.lower().strip(), the key a word is stored under
word_key(word) == strip(lower(word))

\* seq[:n]
Take(s, n) == SubSeq(s, 1, IF Len(s) < n THEN Len(s) ELSE n)

-----------------------------------------------------------------------------
(* Inputs *)

\* words a caller may ask to add
AddWords == {<<"a">>, <<" ", "A">>, <<"b">>}

\* words a caller may name in a review, schedule or detail request
RawWords == AddWords \cup {<<"A">>}

\* custom_definition: None, '' or a text
CustomDefinitions == {None, Some(""), Some("c")}

\* answers to "Enter definition manually? (y/n): "
UseCustomAnswers == {<<"y">>, <<"Y">>, <<"n">>, <<>>}

\* answers to "Enter definition: "
ManualDefinitions == {"", "m"}

Def(s) == [definition |-> Some(s), example |-> None]
DefEx(s, e) == [definition |-> Some(s), example |-> Some(e)]

\* responses of api.dictionaryapi.dev: an exception (timeout), a status that
\* is not 200, or a JSON list of entries (a body that is no list, or an empty
\* list, takes the same branch)
Unreachable == [raised |-> TRUE, status_code |-> 0, data |-> <<>>]

DictionaryResponses ==
    { Unreachable,
      [raised |-> FALSE, status_code |-> 404, data |-> <<>>],
      [raised |-> FALSE, status_code |-> 200, data |-> <<>>],
      [raised |-> FALSE, status_code |-> 200,
       data |-> << [meanings |-> <<>>, phonetic |-> None] >>],
      [raised |-> FALSE, status_code |-> 200,
       data |-> << [meanings |-> << [definitions |->
                       << [definition |-> None, example |-> None] >>] >>,
                    phonetic |-> None] >>],
      [raised |-> FALSE, status_code |-> 200,
       data |-> << [meanings |->
                       << [definitions |-> <<DefEx("d1", "e1"), Def("d2")>>],
                          [definitions |-> <<DefEx("d3", "e2"), DefEx("d4", "e3")>>] >>,
                    phonetic |-> Some("ph")] >>] }

\* responses of api.datamuse.com
DatamuseResponses ==
    { Unreachable,
      [raised |-> FALSE, status_code |-> 200, data |-> <<>>],
      [raised |-> FALSE, status_code |-> 200, data |-> << [defs |-> None] >>],
      [raised |-> FALSE, status_code |-> 200, data |-> << [defs |-> Some(<<>>)] >>],
      [raised |-> FALSE, status_code |-> 200, data |-> << [defs |-> Some(<<"n">>)] >>] }

\* what the user may type at "Select (1-5): "
RatingTokens == {"0", "1", "2", "3", "4", "5", "6", "x"}

\* int(s): None when it raises ValueError
ParseInt(s) ==
    CASE s = "0" -> Some(0)
      [] s = "1" -> Some(1)
      [] s = "2" -> Some(2)
      [] s = "3" -> Some(3)
      [] s = "4" -> Some(4)
      [] s = "5" -> Some(5)
      [] s = "6" -> Some(6)
      [] OTHER -> None

ValidRating(tok) ==
    ParseInt(tok) # None /\ 1 <= ParseInt(tok)[1] /\ ParseInt(tok)[1] <= 5

\* what is typed during one review, up to the token that ends the loop: any
\* number of rejected tokens, then one more token (input may end there)
RatingInputs ==
    UNION { { rejected \o <<tok>> :
                rejected \in [1..n -> {t \in RatingTokens : ~ValidRating(t)}],
                tok \in RatingTokens } : n \in 0..(MaxAttempts - 1) }

-----------------------------------------------------------------------------
(* fetch_definition_from_webster *)

RECURSIVE FlattenDefinitions(_)
\* the two nested for loops: every definition of every meaning, in order
FlattenDefinitions(meanings) ==
    IF meanings = <<>> THEN <<>>
    ELSE Head(meanings).definitions \o FlattenDefinitions(Tail(meanings))

\* definition.get('definition', '')
DefinitionText(d) == IF d.definition = None THEN "" ELSE d.definition[1]

RECURSIVE ExampleTexts(_)
\* if 'example' in definition: examples.append(definition.get('example'))
ExampleTexts(ds) ==
    IF ds = <<>> THEN <<>>
    ELSE (IF Head(ds).example = None THEN <<>> ELSE <<Head(ds).example[1]>>)
         \o ExampleTexts(Tail(ds))

dictionary_info(word, r) ==
    IF ~r.raised /\ r.status_code = 200 /\ Len(r.data) > 0
    THEN LET word_data == r.data[1]
             ds == FlattenDefinitions(word_data.meanings)
             definitions == [i \in 1..Len(ds) |-> DefinitionText(ds[i])]
         IN Some([word |-> word,
                  meanings |-> Take(definitions, MaxMeanings),
                  examples |-> Take(ExampleTexts(ds), MaxExamples),
                  phonetic |-> IF word_data.phonetic = None THEN ""
                               ELSE word_data.phonetic[1],
                  source |-> "dictionaryapi.dev"])
    ELSE None

datamuse_info(word, r) ==
    IF ~r.raised /\ r.status_code = 200 /\ Len(r.data) > 0
    THEN LET defs == r.data[1].defs
         IN IF defs # None /\ defs[1] = <<>>
            THEN None   \* defs[0] raises IndexError, which the except clause swallows
            ELSE Some([word |-> word,
                       meanings |-> << IF defs # None THEN defs[1][1]
                                       ELSE "No definition found" >>,
                       examples |-> <<>>,
                       phonetic |-> "",
                       source |-> "datamuse.com"])
    ELSE None

fetch_definition_from_webster(word, r1, r2) ==
    IF dictionary_info(word, r1) # None THEN dictionary_info(word, r1)
    ELSE datamuse_info(word, r2)

-----------------------------------------------------------------------------
(* load_data / save_data *)

EmptyStore == [words |-> <<>>, order |-> <<>>]

\* pickle.dump of a dict: its items, in insertion order
pickle_dump(ws, order) == [i \in 1..Len(order) |-> <<order[i], ws[order[i]]>>]

\* pickle.load of such a stream: the dict rebuilt item by item
pickle_load(stream) ==
    LET keys == {stream[i][1] : i \in 1..Len(stream)}
        at(k) == CHOOSE i \in 1..Len(stream) :
                    /\ stream[i][1] = k
                    /\ \A j \in (i + 1)..Len(stream) : stream[j][1] # k
    IN [words |-> [k \in keys |-> stream[at(k)][2]],
        order |-> [i \in 1..Len(stream) |-> stream[i][1]]]

\* pickle.load raises on a stream that was cut short
can_load(file) == IF file = None THEN TRUE ELSE file[1].complete

\* lines 26-29, for a file that can be loaded
load_data(file) == IF file = None THEN EmptyStore ELSE pickle_load(file[1].stream)

\* lines 35-36, run to the end: the file holds the whole stream
save_data(ws, order) == Some([stream |-> pickle_dump(ws, order), complete |-> TRUE])

\* lines 35-36 when the process dies inside them: open() has emptied the
\* file, and of the stream only a part, perhaps none of it, was written
save_data_cut(ws, order) ==
    { Some([stream |-> Take(pickle_dump(ws, order), n), complete |-> FALSE]) :
        n \in 0..(Len(order) - 1) }

-----------------------------------------------------------------------------
(* add_word *)

Truthy(opt) == opt # None /\ opt[1] # ""

user_info(word, text, source) ==
    [word |-> word, meanings |-> <<text>>, examples |-> <<>>,
     phonetic |-> "", source |-> source]

\* lines 106-130: the definition of the new record, None when the add is given up
word_info_for(word, custom_definition, r1, r2, use_custom, custom_def) ==
    IF Truthy(custom_definition)
    THEN Some(user_info(word, custom_definition[1], "custom"))
    ELSE LET fetched == fetch_definition_from_webster(word_key(word), r1, r2)
         IN IF fetched # None THEN fetched
            ELSE IF lower(use_custom) = <<"y">>
                 THEN Some(user_info(word, custom_def, "manual"))
                 ELSE None

\* [now + timedelta(days=interval) for interval in self.ebbinghaus_intervals]
review_dates_from(now) ==
    [i \in 1..Len(ebbinghaus_intervals) |-> now + days(ebbinghaus_intervals[i])]

\* the first review falls on the day of the add
first_next_review_today(review_dates, now) == review_dates[1]

first_next_review(review_dates, now) ==
    IF Len(review_dates) > 1 THEN review_dates[2] ELSE now

new_record(word_info, now) ==
    LET review_dates == review_dates_from(now)
    IN [info |-> word_info,
        added_date |-> now,
        review_dates |-> review_dates,
        last_reviewed |-> None,
        review_count |-> 0,
        mastery_level |-> 0,
        next_review |-> first_next_review(review_dates, now)]

Put(ws, key, rec) ==
    [k \in DOMAIN ws \cup {key} |-> IF k = key THEN rec ELSE ws[k]]

\* what `last` keeps of a call: the word it was given, the key of the record it
\* wrote, the rating, the record's review_count before the call, and the clock
\* reading the call scheduled from
Call(op, word, key, quality, count_before, now) ==
    [op |-> op, word |-> word, key |-> key, quality |-> quality,
     count_before |-> count_before, now |-> now]

\* what lines 106-130 can make of each word, over the given arguments,
\* responses and answers
word_info_choices(customs, r1s, r2s, answers, manuals) ==
    [word \in AddWords |->
        { word_info_for(word, custom_definition, r1, r2, use_custom, custom_def) :
            custom_definition \in customs, r1 \in r1s, r2 \in r2s,
            use_custom \in answers, custom_def \in manuals }]

\* every caller and every environment
all_info_choices ==
    word_info_choices(CustomDefinitions, DictionaryResponses, DatamuseResponses,
                      UseCustomAnswers, ManualDefinitions)

\* the callers that pass custom_definition, with both services unreachable
\* and manual entry declined
offline_info_choices ==
    word_info_choices(CustomDefinitions, {Unreachable}, {Unreachable},
                      {<<"n">>}, {""})

\* what add_word returns and prints
add_word_result(word, word_info) ==
    IF word_key(word) \in DOMAIN words THEN "already"
    ELSE IF word_info = None THEN "no_definition"
    ELSE "added"

\* add_word without the test of lines 99-101
add_word_overwriting(word, word_info) ==
    LET word_lower == word_key(word)
    IN IF word_info = None
       THEN UNCHANGED vars
       ELSE /\ words' = Put(words, word_lower, new_record(word_info[1], clock))
            /\ word_order' = Append(word_order, word_lower)
            /\ data_file' = save_data(words', word_order')
            /\ last' = Call("add", word, word_lower, 0, 0, clock)
            /\ UNCHANGED clock

\* word_info is the outcome of lines 106-130, computed only when the key is new
add_word(word, word_info) ==
    LET word_lower == word_key(word)
    IN IF word_lower \in DOMAIN words
       THEN UNCHANGED vars
       ELSE IF word_info = None
       THEN UNCHANGED vars
       ELSE /\ words' = Put(words, word_lower, new_record(word_info[1], clock))
            /\ word_order' = Append(word_order, word_lower)
            /\ data_file' = save_data(words', word_order')
            /\ last' = Call("add", word, word_lower, 0, 0, clock)
            /\ UNCHANGED clock

\* add_word reaching line 146, the process dying in save_data
add_word_dying(word, word_info) ==
    LET word_lower == word_key(word)
    IN /\ word_lower \notin DOMAIN words
       /\ word_info # None
       /\ words' = Put(words, word_lower, new_record(word_info[1], clock))
       /\ word_order' = Append(word_order, word_lower)
       /\ data_file' \in save_data_cut(words', word_order')
       /\ last' = Call("add", word, word_lower, 0, 0, clock)
       /\ UNCHANGED clock

AddWord(choices) ==
    \E word \in AddWords :
        \E word_info \in choices[word] : add_word(word, word_info)

-----------------------------------------------------------------------------
(* review_word *)

RECURSIVE read_mastery(_)
\* the while True loop of lines 213-220: the first token that parses to 1..5;
\* None when input ends first
read_mastery(inputs) ==
    IF inputs = <<>> THEN None
    ELSE IF ValidRating(Head(inputs)) THEN ParseInt(Head(inputs))
    ELSE read_mastery(Tail(inputs))

Min(a, b) == IF a < b THEN a ELSE b

\* the index taken from the count before the increment
next_review_after_count_before(mastery, review_count, now) ==
    IF mastery >= 4
    THEN LET current_index == Min(review_count - 1, Len(ebbinghaus_intervals) - 1)
         IN IF current_index < Len(ebbinghaus_intervals) - 1
            THEN now + days(ebbinghaus_intervals[(current_index + 1) + 1])
            ELSE now + days(YearDays)
    ELSE IF mastery >= 2 THEN now + PartialHours
    ELSE now + ForgotHours

\* the last table entry reused instead of the year
next_review_after_no_year(mastery, review_count, now) ==
    IF mastery >= 4
    THEN LET current_index == Min(review_count, Len(ebbinghaus_intervals) - 2)
         IN now + days(ebbinghaus_intervals[(current_index + 1) + 1])
    ELSE IF mastery >= 2 THEN now + PartialHours
    ELSE now + ForgotHours

\* the partial-recall delay grown with the number of reviews
next_review_after_partial_grows(mastery, review_count, now) ==
    IF mastery >= 4
    THEN LET current_index == Min(review_count, Len(ebbinghaus_intervals) - 1)
         IN IF current_index < Len(ebbinghaus_intervals) - 1
            THEN now + days(ebbinghaus_intervals[(current_index + 1) + 1])
            ELSE now + days(YearDays)
    ELSE IF mastery >= 2 THEN now + PartialHours * review_count
    ELSE now + ForgotHours

\* a forgotten word put up for review at once
next_review_after_forgot_now(mastery, review_count, now) ==
    IF mastery >= 4
    THEN LET current_index == Min(review_count, Len(ebbinghaus_intervals) - 1)
         IN IF current_index < Len(ebbinghaus_intervals) - 1
            THEN now + days(ebbinghaus_intervals[(current_index + 1) + 1])
            ELSE now + days(YearDays)
    ELSE IF mastery >= 2 THEN now + PartialHours
    ELSE now

\* lines 228-240; review_count is the count after the increment of line 224
next_review_after(mastery, review_count, now) ==
    IF mastery >= 4
    THEN LET current_index == Min(review_count, Len(ebbinghaus_intervals) - 1)
         IN IF current_index < Len(ebbinghaus_intervals) - 1
            THEN now + days(ebbinghaus_intervals[(current_index + 1) + 1])
            ELSE now + days(YearDays)
    ELSE IF mastery >= 2 THEN now + PartialHours
    ELSE now + ForgotHours

\* the rating stored as it was typed
new_mastery_level_unconverted(mastery) == mastery

new_mastery_level(mastery) == mastery - 1

\* the counter left as it was
new_review_count_unchanged(data) == data.review_count

new_review_count(data) == data.review_count + 1

\* the schedule of the record started again from the review
reviewed_record_reanchored(data, mastery, now1, now2) ==
    [data EXCEPT !.review_dates = review_dates_from(now1),
                 !.last_reviewed = Some(now1),
                 !.review_count = new_review_count(data),
                 !.mastery_level = new_mastery_level(mastery),
                 !.next_review = next_review_after(mastery, new_review_count(data), now2)]

\* lines 223-240: now1 is read at line 223, now2 at the line that sets next_review
reviewed_record(data, mastery, now1, now2) ==
    [data EXCEPT !.last_reviewed = Some(now1),
                 !.review_count = new_review_count(data),
                 !.mastery_level = new_mastery_level(mastery),
                 !.next_review = next_review_after(mastery, new_review_count(data), now2)]

\* what the loop of lines 213-220 can end with
mastery_choices == { read_mastery(inputs) : inputs \in RatingInputs }

\* what review_word returns and prints
review_word_result(word, mastery) ==
    IF word \notin DOMAIN words THEN "not_found"
    ELSE IF mastery = None THEN "abandoned"
    ELSE "reviewed"

\* review_word without the save of line 242
review_word_unsaved(word, mastery, drift) ==
    IF word \notin DOMAIN words
    THEN UNCHANGED vars
    ELSE IF mastery = None
    THEN UNCHANGED vars
    ELSE LET data == words[word]
         IN /\ data.review_count < MaxReviews
            /\ clock' = clock + drift
            /\ words' = [words EXCEPT ![word] =
                            reviewed_record(data, mastery[1], clock, clock')]
            /\ last' = Call("review", word, word, mastery[1],
                            data.review_count, clock')
            /\ UNCHANGED <<word_order, data_file>>

\* review_word without the test of lines 196-198: an unknown word gets a record
review_word_creating(word, mastery, drift) ==
    IF mastery = None
    THEN UNCHANGED vars
    ELSE LET data == IF word \in DOMAIN words THEN words[word]
                     ELSE new_record(user_info(word, "", "custom"), clock)
         IN /\ data.review_count < MaxReviews
            /\ clock' = clock + drift
            /\ words' = Put(words, word,
                            reviewed_record(data, mastery[1], clock, clock'))
            /\ word_order' = IF word \in DOMAIN words THEN word_order
                             ELSE Append(word_order, word)
            /\ data_file' = save_data(words', word_order')
            /\ last' = Call("review", word, word, mastery[1],
                            data.review_count, clock')

\* mastery is what the loop of lines 213-220 ended with: None when input ended
\* before a valid rating, and the exception leaves review_word at line 215
review_word(word, mastery, drift) ==
    IF word \notin DOMAIN words
    THEN UNCHANGED vars
    ELSE IF mastery = None
    THEN UNCHANGED vars
    ELSE LET data == words[word]
         IN /\ data.review_count < MaxReviews
            /\ clock' = clock + drift
            /\ words' = [words EXCEPT ![word] =
                            reviewed_record(data, mastery[1], clock, clock')]
            /\ data_file' = save_data(words', word_order)
            /\ last' = Call("review", word, word, mastery[1],
                            data.review_count, clock')
            /\ UNCHANGED word_order

\* review_word reaching line 242, the process dying in save_data
review_word_dying(word, mastery, drift) ==
    /\ word \in DOMAIN words
    /\ mastery # None
    /\ words[word].review_count < MaxReviews
    /\ clock' = clock + drift
    /\ words' = [words EXCEPT ![word] =
                    reviewed_record(words[word], mastery[1], clock, clock')]
    /\ data_file' \in save_data_cut(words', word_order)
    /\ last' = Call("review", word, word, mastery[1],
                    words[word].review_count, clock')
    /\ UNCHANGED word_order

ReviewWord ==
    \E word \in RawWords, mastery \in mastery_choices,
       drift \in {d \in 0..1 : clock + d <= MaxClock} :
        review_word(word, mastery, drift)

-----------------------------------------------------------------------------
(* the calls that only read self.words *)

\* a record on the year, with a good rating, never due again
is_due_until_mastered(data, now) ==
    /\ data.next_review <= now
    /\ ~(data.review_count >= Len(ebbinghaus_intervals) - 1 /\ data.mastery_level >= 3)

\* a record due only once its time has passed
is_due_past(data, now) == data.next_review < now

\* line 187
is_due(data, now) == data.next_review <= now

\* every stored word listed, due or not
words_to_review_all(ws, order, now) == order

\* lines 186-188 over the items of a mapping, read at now
words_to_review(ws, order, now) ==
    SelectSeq(order, LAMBDA word : is_due(ws[word], now))

\* get_words_for_review: the due keys, in the order of self.words.items()
get_words_for_review == words_to_review(words, word_order, clock)

GetWordsForReview ==
    /\ Len(get_words_for_review) <= Len(word_order)
    /\ UNCHANGED vars

\* show_review_schedule(word) with a word, lines 257-262
show_review_schedule_result(word) ==
    IF word \in DOMAIN words THEN "found" ELSE "not_found"

ShowReviewSchedule ==
    \E word \in RawWords :
        /\ show_review_schedule_result(word) \in {"found", "not_found"}
        /\ UNCHANGED vars

\* option 6 of run_interactive, lines 458-463: the typed word is stripped
view_details_result(typed) ==
    LET word == strip(typed)
    IN IF word \in DOMAIN words THEN "found" ELSE "not_found"

ViewDetails ==
    \E typed \in RawWords :
        /\ view_details_result(typed) \in {"found", "not_found"}
        /\ UNCHANGED vars

-----------------------------------------------------------------------------
(* time *)

Tick ==
    /\ clock < MaxClock
    /\ clock' = clock + 1
    /\ UNCHANGED <<words, word_order, data_file, last>>

-----------------------------------------------------------------------------

\* the shell or the menu at its prompt, nothing under review; done counts the
\* words the latest pass reviewed
Ready == [pc |-> "ready", pending |-> <<>>, done |-> 0, rejected |-> 0]

Init ==
    /\ data_file = None
    /\ words = load_data(data_file).words
    /\ word_order = load_data(data_file).order
    /\ clock = 0
    /\ last = Call("none", <<>>, <<>>, 0, 0, 0)
    /\ session = Ready

\* the process ends and the program is started again: __init__, lines 16-17
Restart ==
    /\ can_load(data_file)
    /\ words' = load_data(data_file).words
    /\ word_order' = load_data(data_file).order
    /\ UNCHANGED <<data_file, clock, last>>

\* words are added with the definition passed in; every review, every lookup
Next ==
    \/ AddWord(offline_info_choices) /\ UNCHANGED session
    \/ ReviewWord /\ UNCHANGED session
    \/ ShowReviewSchedule /\ UNCHANGED session
    \/ ViewDetails /\ UNCHANGED session
    \/ GetWordsForReview /\ UNCHANGED session
    \/ Restart /\ UNCHANGED session
    \/ Tick /\ UNCHANGED session

Spec == Init /\ [][Next]_allvars

\* words are added from every source of a definition; no reviews
NextDefinitions ==
    \/ AddWord(all_info_choices) /\ UNCHANGED session
    \/ ShowReviewSchedule /\ UNCHANGED session
    \/ ViewDetails /\ UNCHANGED session
    \/ Restart /\ UNCHANGED session
    \/ Tick /\ UNCHANGED session

SpecDefinitions == Init /\ [][NextDefinitions]_allvars

-----------------------------------------------------------------------------
(* main and run_interactive: one command or one menu choice at a time, a      *)
(* review at its prompt "Select (1-5): "                                      *)

\* add_word(word) as main and the menu call it: no custom_definition; the
\* services do not answer, and the user accepts or declines manual entry
flow_info(word, use_custom) ==
    word_info_for(word, None, Unreachable, Unreachable, use_custom, "m")

\* the words typed in the flows, all during the first hours
FlowWords == {<<"a">>, <<"b">>}

\* main, lines 484-485: --add word
CommandAdd ==
    /\ session.pc = "ready"
    /\ clock <= MaxClock
    /\ \E word \in FlowWords, use_custom \in {<<"y">>, <<"n">>} :
          add_word(word, flow_info(word, use_custom))
    /\ UNCHANGED session

\* option 1, lines 399-402: the typed word is stripped, an empty one is dropped
MenuAdd ==
    /\ session.pc = "ready"
    /\ clock <= MaxClock
    /\ \E typed \in FlowWords \cup {<<" ">>, <<"b", " ">>}, use_custom \in {<<"y">>, <<"n">>} :
          LET word == strip(typed)
          IN IF word # <<>> THEN add_word(word, flow_info(word, use_custom))
             ELSE UNCHANGED vars
    /\ UNCHANGED session

\* the for loop over words_to_review entered: review_word at its first prompt
Reviewing(due) ==
    [pc |-> "rating", pending |-> due, done |-> 0, rejected |-> 0]

\* main, lines 486-492: --review
CommandReview ==
    /\ session.pc = "ready"
    /\ session' = IF get_words_for_review # <<>>
                  THEN Reviewing(get_words_for_review)
                  ELSE session
    /\ UNCHANGED vars

\* what may be typed at "Enter word number (or press Enter to review all): "
Selections == {"", "1", "2", "3", "x"}

\* lines 415-428: the words the selection puts under review
selected_words(due, selection) ==
    IF selection = "" THEN due
    ELSE IF ParseInt(selection) = None THEN <<>>
    ELSE LET idx == ParseInt(selection)[1] - 1
         IN IF 0 <= idx /\ idx < Len(due)
            THEN <<due[idx + 1]>>
            ELSE <<>>

\* option 2, lines 404-428
MenuReview ==
    /\ session.pc = "ready"
    /\ \E selection \in Selections :
          session' = IF selected_words(get_words_for_review, selection) # <<>>
                     THEN Reviewing(selected_words(get_words_for_review, selection))
                     ELSE session
    /\ UNCHANGED vars

\* what is typed at "Select (1-5): " in the flows
FlowRatingTokens == {"0", "1", "5", "6", "x"}

RECURSIVE total_reviews(_)
\* the reviews completed so far, over the keys given
total_reviews(keys) ==
    IF keys = <<>> THEN 0
    ELSE words[Head(keys)].review_count + total_reviews(Tail(keys))

\* a rejected token that leaves its mark on the record
RejectRating_marking ==
    /\ session.pc = "rating"
    /\ session.rejected < MaxAttempts - 1
    /\ \E tok \in FlowRatingTokens :
          /\ ~ValidRating(tok)
          /\ session' = [session EXCEPT !.rejected = @ + 1]
    /\ words' = [words EXCEPT ![Head(session.pending)].last_reviewed = Some(clock)]
    /\ UNCHANGED <<word_order, data_file, clock, last>>

\* lines 214-220: a token that is no number, or is out of range, is reported
\* and the prompt comes again
RejectRating ==
    /\ session.pc = "rating"
    /\ session.rejected < MaxAttempts - 1
    /\ \E tok \in FlowRatingTokens :
          /\ ~ValidRating(tok)
          /\ session' = [session EXCEPT !.rejected = @ + 1]
    /\ UNCHANGED vars

\* lines 215-242: a rating in 1..5 ends the loop, the record is updated and
\* saved, and the for loop goes on to the next word
AcceptRating ==
    /\ session.pc = "rating"
    /\ total_reviews(word_order) < MaxFlowReviews
    /\ \E tok \in FlowRatingTokens, drift \in {d \in 0..1 : d = 0 \/ clock + d <= MaxClock} :
          /\ ValidRating(tok)
          /\ review_word(Head(session.pending), ParseInt(tok), drift)
    /\ session' = IF Tail(session.pending) = <<>>
                  THEN [Ready EXCEPT !.done = session.done + 1]
                  ELSE [pc |-> "rating", pending |-> Tail(session.pending),
                        done |-> session.done + 1, rejected |-> 0]

\* input ends, or is interrupted, at line 215: the exception is caught nowhere
\* and ends the process
AbandonReview ==
    /\ session.pc = "rating"
    /\ review_word(Head(session.pending), read_mastery(<<>>), 0)
    /\ session' = [Ready EXCEPT !.pc = "exited"]

\* the program is started: from the shell after a command, or after it died
Start ==
    /\ session.pc \in {"ready", "exited"}
    /\ Restart
    /\ session' = Ready

\* time passes until the record under k is to be reviewed
Wait(k) ==
    /\ k \in DOMAIN words
    /\ words[k].next_review > clock
    /\ clock' = words[k].next_review
    /\ UNCHANGED <<words, word_order, data_file, last, session>>

FlowKeys == {word_key(word) : word \in FlowWords}

NextFlows ==
    \/ CommandAdd
    \/ MenuAdd
    \/ CommandReview
    \/ MenuReview
    \/ RejectRating
    \/ AcceptRating
    \/ AbandonReview
    \/ Start
    \/ Tick /\ UNCHANGED session
    \/ \E k \in FlowKeys : Wait(k)

\* every command of main that adds or reviews, and the menu
SpecFlows == Init /\ [][NextFlows]_allvars

\* the flows, with time that does not stop short of a record's next review
SpecFlowsFair == SpecFlows /\ \A k \in FlowKeys : WF_allvars(Wait(k))

\* the commands of main alone, each run from the shell
NextCommandLine ==
    \/ CommandAdd
    \/ CommandReview
    \/ RejectRating
    \/ AcceptRating
    \/ AbandonReview
    \/ Start
    \/ Tick /\ UNCHANGED session
    \/ \E k \in FlowKeys : Wait(k)

SpecCommandLine == Init /\ [][NextCommandLine]_allvars

\* --add, the process killed while it saves
CommandAddCrash ==
    /\ session.pc = "ready"
    /\ clock <= MaxClock
    /\ \E word \in FlowWords, use_custom \in {<<"y">>, <<"n">>} :
          add_word_dying(word, flow_info(word, use_custom))
    /\ session' = [Ready EXCEPT !.pc = "exited"]

\* a rating accepted, the process killed while it saves
AcceptRatingCrash ==
    /\ session.pc = "rating"
    /\ total_reviews(word_order) < MaxFlowReviews
    /\ \E tok \in FlowRatingTokens :
          /\ ValidRating(tok)
          /\ review_word_dying(Head(session.pending), ParseInt(tok), 0)
    /\ session' = [Ready EXCEPT !.pc = "exited"]

\* the program started on a file that pickle.load cannot read: line 28 raises
\* and the process ends at once
StartFails ==
    /\ session.pc = "exited"
    /\ ~can_load(data_file)
    /\ UNCHANGED allvars

\* the commands of main, with a process that may be killed while it saves
NextCrash ==
    \/ CommandAdd
    \/ CommandReview
    \/ AcceptRating
    \/ CommandAddCrash
    \/ AcceptRatingCrash
    \/ Start
    \/ StartFails
    \/ \E k \in FlowKeys : Wait(k)

SpecCrash == Init /\ [][NextCrash]_allvars

-----------------------------------------------------------------------------
(* Claims *)

Hours(d) == 24 * d

\* the day counts the claims speak of, Python index i at i + 1
Offsets == <<0, 1, 2, 6, 31>>

Record(k) == words[k]

\* the step is a completed review of the record under k
CompletedReview(k) == last' # last /\ last'.op = "review" /\ last'.key = k

\* C1 as stated: after a review with quality 4 or 5, with
\* idx = min(review_count_before, 4), next_review_at is now + offsets[idx+1] days
\* when idx < 4 and now + 365 days otherwise.
C1_IndexFromCountBefore ==
    (last.op = "review" /\ last.quality >= 4) =>
        LET idx == Min(last.count_before, 4)
        IN Record(last.key).next_review =
              IF idx < 4 THEN last.now + Hours(Offsets[(idx + 1) + 1])
              ELSE last.now + Hours(365)

\* C1 amended: after a review with quality 4 or 5, with
\* idx = min(review_count_before + 1, 4), next_review_at is now + offsets[idx+1] days
\* when idx < 4 and now + 365 days otherwise.
C1_IndexFromCountAfter ==
    (last.op = "review" /\ last.quality >= 4) =>
        LET idx == Min(last.count_before + 1, 4)
        IN Record(last.key).next_review =
              IF idx < 4 THEN last.now + Hours(Offsets[(idx + 1) + 1])
              ELSE last.now + Hours(365)

\* a good review of a record reviewed four times before, put on the year
C1_Witness ==
    /\ last.op = "review" /\ last.quality = 4 /\ last.count_before = 4
    /\ Record(last.key).next_review = last.now + Hours(365)

\* C2: the first review of a freshly added record, with quality 5, leaves
\* next_review_at = now + 2 days, review_count = 1 and mastery_level = 4.
C2_FirstReviewQuality5 ==
    (last.op = "review" /\ last.count_before = 0 /\ last.quality = 5) =>
        /\ Record(last.key).next_review = last.now + Hours(2)
        /\ Record(last.key).review_count = 1
        /\ Record(last.key).mastery_level = 4

C2_Witness ==
    /\ last.op = "review" /\ last.count_before = 0 /\ last.quality = 5
    /\ Record(last.key).last_reviewed # None

\* the step is a review with quality 4 or 5 of a record whose latest change was
\* its add or another review with quality 4 or 5
GoodRunStep ==
    /\ last' # last /\ last'.op = "review" /\ last'.quality >= 4
    /\ last.key = last'.key
    /\ last.op = "add" \/ (last.op = "review" /\ last.quality >= 4)

\* the interval the record was on before the step, and the one it is on after
IntervalBefore == Record(last.key).next_review - last.now
IntervalAfter == words'[last'.key].next_review - last'.now

\* on a run of good reviews the interval moves one entry up the table while
\* review_count_before <= table_until, and is 365 days exactly beyond that
OneStepUpTheTable(table_until) ==
    GoodRunStep =>
        /\ last'.count_before <= table_until =>
              \E i \in 1..(Len(Offsets) - 1) :
                  /\ IntervalBefore = Hours(Offsets[i])
                  /\ IntervalAfter = Hours(Offsets[i + 1])
        /\ IntervalAfter = Hours(365) <=> last'.count_before > table_until

\* C3 as stated: along consecutive reviews with quality 4 or 5 from a fresh
\* record, each review moves the interval one step up the offset table for
\* review_count_before 0..3, and 365 days is used iff review_count_before >= 4.
C3_TableUntilCountBefore3 == [][OneStepUpTheTable(3)]_vars

\* C3 amended: each review moves the interval one step up the offset table for
\* review_count_before 0..2, and 365 days is used iff review_count_before >= 3.
C3_TableUntilCountBefore2 == [][OneStepUpTheTable(2)]_vars

\* a run of four good reviews from the add: the fourth is on the year
C3_Witness ==
    /\ last.op = "review" /\ last.quality >= 4 /\ last.count_before = 3
    /\ Record(last.key).mastery_level >= 3
    /\ Record(last.key).next_review - last.now = Hours(365)

\* C4: after a review with quality below 4, next_review_at is now + 12 hours
\* for quality 2 or 3 and now + 1 hour for quality 1, whatever the review count.
C4_BelowFourIgnoresCount ==
    (last.op = "review" /\ last.quality < 4) =>
        Record(last.key).next_review =
            IF last.quality >= 2 THEN last.now + 12 ELSE last.now + 1

\* partial recall on a record that was reviewed at least twice before
C4_Witness ==
    /\ last.op = "review" /\ last.quality \in {2, 3} /\ last.count_before >= 2
    /\ Record(last.key).next_review = last.now + 12

\* C5: a successful add at time added_at creates a record whose review_anchors
\* are added_at plus 0, 1, 2, 6 and 31 days, whose next_review_at is
\* added_at + 1 day, whose review_count is 0 and whose last_reviewed_at is null.
C5_AddCreatesSchedule ==
    last.op = "add" =>
        LET r == Record(last.key)
            t == last.now
        IN /\ r.added_date = t
           /\ r.review_dates =
                 <<t, t + Hours(1), t + Hours(2), t + Hours(6), t + Hours(31)>>
           /\ r.next_review = t + Hours(1)
           /\ r.review_count = 0
           /\ r.last_reviewed = None

\* an add after the clock has moved
C5_Witness ==
    /\ last.op = "add" /\ last.now > 0
    /\ Record(last.key).added_date = last.now

\* C6: an add request whose normalized key is already present is rejected and
\* leaves the mapping and the persisted store unchanged, whatever the case or
\* surrounding whitespace of the request and whatever definition it comes with.
C6_DuplicateAddChangesNothing ==
    /\ [](\A word \in AddWords :
             word_key(word) \in DOMAIN words =>
                 /\ add_word_result(word, None) = "already"
                 /\ add_word_result(word, Some(user_info(word, "c", "custom")))
                        = "already")
    /\ [][/\ (last' # last /\ last'.op = "add") =>
                (last'.key = word_key(last'.word) /\ last'.key \notin DOMAIN words)
          /\ last' = last =>
                words' = words /\ word_order' = word_order /\ data_file' = data_file
          /\ \A k \in DOMAIN words :
                k \in DOMAIN words' /\ (words'[k] # words[k] => CompletedReview(k))]_vars

\* a stored word that other spellings of the request map to
C6_Witness ==
    \E word \in AddWords :
        /\ word_key(word) \in DOMAIN words
        /\ Record(word_key(word)).info.word # word
        /\ Record(word_key(word)).info.word # word_key(word)

\* C7: once a word is stored, a review, schedule or detail request that names
\* it in any case or with surrounding whitespace finds the record.
C7_LookupsNormalize ==
    \A word \in RawWords :
        word_key(word) \in DOMAIN words =>
            /\ review_word_result(word, Some(5)) # "not_found"
            /\ show_review_schedule_result(word) = "found"
            /\ view_details_result(word) = "found"

\* C8: every stored record's info has at least one meaning, and its first
\* meaning is a non-empty string.
C8_DefinitionNonEmpty ==
    \A k \in DOMAIN words :
        /\ Len(Record(k).info.meanings) >= 1
        /\ Record(k).info.meanings[1] # ""

\* C9: no step lowers a record's review_count, only a completed review
\* changes it, and a completed review raises it by exactly 1.
C9_ReviewCountSteps ==
    [][\A k \in DOMAIN words :
          /\ k \in DOMAIN words'
          /\ words'[k].review_count >= words[k].review_count
          /\ words'[k].review_count # words[k].review_count => CompletedReview(k)
          /\ CompletedReview(k) =>
                words'[k].review_count = words[k].review_count + 1]_vars

\* a record reviewed twice beside a record never reviewed
C9_Witness ==
    \E j, k \in DOMAIN words :
        /\ Record(j).review_count = 2
        /\ Record(k).review_count = 0

\* C10: every record's mastery_level is an integer in 0..4; a review sets it
\* to the given quality - 1 whatever it was, and nothing else changes it.
C10_MasteryLevel ==
    /\ [](\A k \in DOMAIN words : Record(k).mastery_level \in 0..4)
    /\ [](last.op = "review" =>
             Record(last.key).mastery_level = last.quality - 1)
    /\ [][\A k \in DOMAIN words :
             (k \in DOMAIN words' /\ words'[k].mastery_level # words[k].mastery_level)
                 => CompletedReview(k)]_vars

\* a record that fell from the top level to the bottom one
C10_Witness ==
    /\ last.op = "review" /\ last.quality = 1 /\ last.count_before >= 1
    /\ Record(last.key).mastery_level = 0
    /\ \E k \in DOMAIN words : Record(k).mastery_level = 4

Range(seq) == {seq[i] : i \in 1..Len(seq)}

\* C11: a record's review_anchors always has exactly 5 strictly increasing
\* entries whose first equals added_at, and no step after creation changes
\* review_anchors or added_at.
C11_AnchorsFixed ==
    /\ [](\A k \in DOMAIN words :
             /\ Len(Record(k).review_dates) = 5
             /\ \A i \in 1..4 : Record(k).review_dates[i] < Record(k).review_dates[i + 1]
             /\ Record(k).review_dates[1] = Record(k).added_date)
    /\ [][\A k \in DOMAIN words :
             /\ k \in DOMAIN words'
             /\ words'[k].review_dates = words[k].review_dates
             /\ words'[k].added_date = words[k].added_date]_vars

\* a record reviewed after its add, scheduled beyond its last anchor
C11_Witness ==
    \E k \in DOMAIN words :
        /\ Record(k).last_reviewed # None
        /\ Record(k).last_reviewed[1] > Record(k).added_date
        /\ Record(k).next_review > Record(k).review_dates[5]

\* the step is a completed review
ReviewStep == last' # last /\ last'.op = "review"

\* C12 as stated: two calls of the due-query with no review in between return
\* the identical set of words.
C12_DueQueryIdentical ==
    [][~ReviewStep => Range(get_words_for_review') = Range(get_words_for_review)]_vars

\* C12 amended: with no review in between, the second call returns the words
\* of the first call and those whose next_review_at lies after the first
\* reading of the clock and at or before the second; the same list when both
\* calls read the same time.
C12_DueQueryGrowsWithClock ==
    [][~ReviewStep =>
          /\ Range(get_words_for_review') =
                Range(get_words_for_review) \cup
                    {k \in DOMAIN words' : /\ clock < words'[k].next_review
                                           /\ words'[k].next_review <= clock'}
          /\ clock' = clock => get_words_for_review' = get_words_for_review]_vars

\* a word that came due as the clock moved, beside one that is not due
C12_Witness ==
    /\ clock > 0
    /\ \E k \in Range(get_words_for_review) : Record(k).next_review = clock
    /\ \E k \in DOMAIN words : k \notin Range(get_words_for_review)

\* C14: between operations the persisted file loads as a mapping identical to
\* the one in memory, record for record and in the same order.
C14_FileRoundTrips ==
    /\ can_load(data_file)
    /\ load_data(data_file).words = words
    /\ load_data(data_file).order = word_order

\* a file written by a review, holding a reviewed and an unreviewed record
C14_Witness ==
    /\ data_file # None
    /\ last.op = "review"
    /\ Len(data_file[1].stream) = 2
    /\ \E i, j \in 1..2 :
          /\ data_file[1].stream[i][2].last_reviewed = Some(last.now)
          /\ data_file[1].stream[j][2].last_reviewed = None

\* C15: a review request for a key that is not in the store is reported as
\* not found; every completed review is of a key already stored, and a step
\* that completes no add and no review leaves the mapping and the file alone.
C15_AbsentReviewChangesNothing ==
    /\ [](\A word \in RawWords :
             word \notin DOMAIN words => review_word_result(word, Some(5)) = "not_found")
    /\ [][/\ ReviewStep =>
                /\ last'.word \in DOMAIN words
                /\ DOMAIN words' = DOMAIN words
                /\ word_order' = word_order
          /\ last' = last => words' = words /\ data_file' = data_file]_vars

\* a store that holds a word while a request spells it differently
C15_Witness ==
    /\ <<"a">> \in DOMAIN words
    /\ <<"A">> \in RawWords \ DOMAIN words
    /\ review_word_result(<<"A">>, Some(5)) = "not_found"
    /\ data_file # None

\* C13: --review reviews the words due at invocation in due-date order: of two
\* words still to be reviewed, the one placed first has the earlier or equal
\* next_review_at.
C13_ReviewInDueDateOrder ==
    session.pc = "rating" =>
        \A i, j \in 1..Len(session.pending) :
            i < j => Record(session.pending[i]).next_review
                        <= Record(session.pending[j]).next_review

\* C16: a rejected rating changes no field of the record under review and
\* not the file; a review abandoned at the prompt leaves the mapping and the
\* file as they were; a record is changed only by a rating in 1..5.
C16_InvalidRatingChangesNothing ==
    [][/\ session'.rejected > session.rejected =>
            /\ words'[Head(session.pending)] = words[Head(session.pending)]
            /\ words' = words /\ data_file' = data_file
       /\ (session.pc = "rating" /\ session'.pc = "exited") =>
            words' = words /\ word_order' = word_order /\ data_file' = data_file
       /\ words' # words /\ session.pc = "rating" =>
            /\ ReviewStep
            /\ last'.quality \in 1..5]_allvars

\* a record reviewed before, under review again, after a rejected rating
C16_Witness ==
    /\ session.pc = "rating"
    /\ session.rejected >= 1
    /\ Record(Head(session.pending)).review_count >= 1
    /\ Record(Head(session.pending)).last_reviewed # None
    /\ load_data(data_file).words = words

\* C20: through the commands and the menu, a review changes a record only
\* when the record's next_review_at before the review is at or before the
\* current time.
C20_ReviewedOnlyWhenDue ==
    [][ReviewStep => words[last'.key].next_review <= clock]_allvars

\* the second word of a review-all pass, reviewed
C20_Witness ==
    /\ session.pc = "ready"
    /\ session.done = 2
    /\ last.op = "review"
    /\ \A k \in DOMAIN words : Record(k).last_reviewed # None

\* C17: whatever reviews a record has had, the year's delay included, the
\* record is returned by the due-query again as time passes.
C17_DueAgain ==
    \A k \in FlowKeys :
        [](k \in DOMAIN words => <>(k \in Range(get_words_for_review)))

\* a record put on the year by its fourth good review, and due again
C17_Witness ==
    \E k \in DOMAIN words :
        /\ Record(k).review_count = 4
        /\ Record(k).mastery_level >= 3
        /\ Record(k).next_review = Record(k).last_reviewed[1] + Hours(365)
        /\ k \in Range(get_words_for_review)

\* C18: --add, when the lookup yields no definition, ends without a prompt for
\* manual entry and creates no record: no stored record carries a definition
\* typed at that prompt.
C18_NoManualEntry ==
    \A k \in DOMAIN words : Record(k).info.source # "manual"

\* C19: when the process dies during save_data, the file afterwards loads, as
\* the complete mapping from before the save or as the complete new mapping.
C19_SaveAtomic ==
    [][(session'.pc = "exited" /\ data_file' # data_file) =>
          /\ can_load(data_file')
          /\ \/ load_data(data_file') = load_data(data_file)
             \/ load_data(data_file') = [words |-> words', order |-> word_order']]_allvars

\* C21: every stored record has a next_review_at, strictly later than its
\* added_at and, once reviewed, strictly later than its last_reviewed_at; the
\* word of an add or a review is not due when that add or review completes.
C21_NextReviewLater ==
    /\ [](\A k \in DOMAIN words :
             /\ Record(k).next_review \in Nat
             /\ Record(k).next_review > Record(k).added_date
             /\ Record(k).last_reviewed # None =>
                    Record(k).next_review > Record(k).last_reviewed[1])
    /\ [][last' # last =>
             /\ last'.key \in DOMAIN words'
             /\ ~is_due(words'[last'.key], clock')
             /\ last'.key \notin Range(get_words_for_review')]_vars

\* a forgotten word, reviewed while the clock moved: an hour to its next review
C21_Witness ==
    /\ last.op = "review" /\ last.quality = 1 /\ last.now = clock
    /\ Record(last.key).last_reviewed # None
    /\ Record(last.key).last_reviewed[1] < last.now
    /\ Record(last.key).next_review = clock + 1
    /\ last.key \notin Range(get_words_for_review)

====
